---- MODULE Spec2Model ----
(***************************************************************************)
(* Model of openpecha-toolkit:                                             *)
(*   - openpecha/serializers/serialize.py  (class Serialize)               *)
(*   - openpoti/blupdate.py                (class Blupdate)                *)
(*                                                                         *)
(* Texts are sequences of one-character strings; the byte-order marker     *)
(* U+FEFF is the token "BOM".  Strings recorded by add_chars are atomic    *)
(* tokens.  A Python dict is a sequence of <<key, value>> pairs in         *)
(* insertion order where the order is observable (base_layers), and a      *)
(* function where only membership and lookup are (chars_toapply).          *)
(***************************************************************************)
EXTENDS Integers, Sequences, FiniteSets, TLC

VARIABLES
    volTxt,         \* the files <opfpath>/<vol>.txt: volume path -> raw text
    layerDir,       \* the files <opfpath>/layers/<vol_id>/<layer_id>.yml
    cls,            \* the class of the instance: "Serialize" or a subclass
    text_spans,     \* self.text_spans
    base_layers,    \* self.base_layers, an ordered dict
    chars_toapply,  \* self.chars_toapply, a defaultdict(dict)
    layers,         \* self.layers
    hookCalls,      \* the apply_annotation calls made so far, in order
    added,          \* history: the add_chars calls made so far, per (vol_id, cc)
    last,           \* the last call made on the instance
    ret,            \* what the last call returned
    raised,         \* the exception the last call raised, or "none"
    bl              \* the Blupdate instance and its last call

vars == <<volTxt, layerDir, cls, text_spans, base_layers, chars_toapply, layers,
          hookCalls, added, last, ret, raised, bl>>

\* ------------------------------------------------------------------ bounds
MaxCalls == 2
MaxCoord == 2
MaxOffset == 2

\* ------------------------------------------------------------ Python values
\* a Python value is a record tagged with its type
None == [type |-> "NoneType"]
Str(s) == [type |-> "str", val |-> s]
List(s) == [type |-> "list", val |-> s]
Int_(n) == [type |-> "int", val |-> n]
Tuple(s) == [type |-> "tuple", val |-> s]
Function(name) == [type |-> "function", val |-> name]
BOM == "BOM"

Min(a, b) == IF a < b THEN a ELSE b

\* s[start:end] for 0 <= start, 0 <= end
Slice(s, start, end) == SubSeq(s, start + 1, Min(end, Len(s)))

Reverse(s) == [k \in 1..Len(s) |-> s[Len(s) + 1 - k]]

\* f with f[k] = v, the key added when absent
Put(f, k, v) == [x \in (DOMAIN f) \cup {k} |-> IF x = k THEN v ELSE f[x]]

\* an ordered dict as a sequence of <<key, value>> pairs
DictKeys(d) == {d[k][1] : k \in 1..Len(d)}
DictIndex(d, key) == CHOOSE k \in 1..Len(d) : d[k][1] = key
DictSet(d, key, v) ==
    IF key \in DictKeys(d)
    THEN [d EXCEPT ![DictIndex(d, key)] = <<key, v>>]
    ELSE Append(d, <<key, v>>)

\* ------------------------------------------------------------- Serialize
VolPaths == {<<"base", "v001">>, <<"base", "v002">>}
VolOrder == <<"v001", "v002">>
VolIds == {VolOrder[k] : k \in 1..Len(VolOrder)}
RawTexts == {<<"a", "b">>, <<BOM, "a", "b">>, <<"a", BOM, "b">>}
Strs == {"A", "B"}
Coords == (0 - 1)..MaxCoord

SpanOf(vol, start, end) == [vol |-> vol, span |-> [start |-> start, end |-> end]]

\* the span lists of the works of index.yml
Works == {
    << SpanOf(<<"base", "v001">>, 0, 3) >>,
    << SpanOf(<<"base", "v001">>, 0, 3), SpanOf(<<"base", "v002">>, 0, 3) >>,
    << SpanOf(<<"base", "v002">>, 1, 3), SpanOf(<<"base", "v001">>, 0, 2) >> }

\* span['vol'].split('/')[-1]
SplitLast(vol) == vol[Len(vol)]

get_base_layer(files, span) ==
    Slice(files[span.vol], span.span.start, span.span.end)

RECURSIVE BaseLayersFrom(_, _, _, _)
BaseLayersFrom(files, spans, k, acc) ==
    IF k > Len(spans) THEN acc
    ELSE BaseLayersFrom(files, spans, k + 1,
            DictSet(acc, SplitLast(spans[k].vol), get_base_layer(files, spans[k])))

get_text_base_layer(files, spans) == BaseLayersFrom(files, spans, 1, <<>>)

EmptyApply == <<<<>>, <<>>>>

\* self.chars_toapply[vol_id] of a defaultdict(dict): the key is created on access
Touch(toapply, vol_id) ==
    IF vol_id \in DOMAIN toapply THEN toapply ELSE Put(toapply, vol_id, <<>>)

\* add_chars without the test `cc not in`: the entry is made anew on every call
add_chars_resets(toapply, vol_id, cc, frombefore, charstoadd) ==
    LET t == Touch(toapply, vol_id)
        new == IF frombefore
               THEN <<<<charstoadd>>, <<>>>>
               ELSE <<<<>>, <<charstoadd>>>>
    IN  Put(t, vol_id, Put(t[vol_id], cc, new))

add_chars(toapply, vol_id, cc, frombefore, charstoadd) ==
    LET t == Touch(toapply, vol_id)
        entry == IF cc \in DOMAIN t[vol_id] THEN t[vol_id][cc] ELSE EmptyApply
        new == IF frombefore
               THEN <<<<charstoadd>> \o entry[1], entry[2]>>
               ELSE <<entry[1], Append(entry[2], charstoadd)>>
    IN  Put(t, vol_id, Put(t[vol_id], cc, new))

\* the loop over the characters of one base layer; k is the position in the
\* base layer, i the coordinate counter, st = [res, toapply]
RECURSIVE RenderVol(_, _, _, _, _)
RenderVol(vol_id, base_layer, k, i, st) ==
    IF k > Len(base_layer) THEN st
    ELSE LET c == base_layer[k] IN
         IF c = BOM THEN RenderVol(vol_id, base_layer, k + 1, i, st)
         ELSE LET t == Touch(st.toapply, vol_id)
                  out == IF i \in DOMAIN t[vol_id]
                         THEN st.res \o t[vol_id][i][1] \o <<c>> \o t[vol_id][i][2]
                         ELSE Append(st.res, c)
              IN  RenderVol(vol_id, base_layer, k + 1, i + 1,
                            [res |-> out, toapply |-> t])

\* get_result: the return statement is inside the loop over the volumes
get_result(bases, toapply) ==
    IF Len(bases) = 0
    THEN [ret |-> None, toapply |-> toapply]
    ELSE LET st == RenderVol(bases[1][1], bases[1][2], 1, 0,
                             [res |-> <<>>, toapply |-> toapply])
         IN  [ret |-> Str(st.res), toapply |-> st.toapply]

NoAdded == [key \in VolIds \X Coords |-> [before |-> <<>>, after |-> <<>>]]

\* the number of add_chars calls made so far
RECURSIVE SumLen(_, _, _)
SumLen(h, v, cc) ==
    IF v > Len(VolOrder) THEN 0
    ELSE IF cc > MaxCoord THEN SumLen(h, v + 1, 0 - 1)
    ELSE Len(h[<<VolOrder[v], cc>>].before) + Len(h[<<VolOrder[v], cc>>].after)
         + SumLen(h, v, cc + 1)

NumAdded == SumLen(added, 1, 0 - 1)

Log(h, vol_id, cc, frombefore, charstoadd) ==
    IF frombefore
    THEN [h EXCEPT ![<<vol_id, cc>>].before = Append(@, charstoadd)]
    ELSE [h EXCEPT ![<<vol_id, cc>>].after = Append(@, charstoadd)]

\* --------------------------------------------------------------- layers
LayerIds == {"A", "B"}

Ann(start, end) == [start |-> start, end |-> end]

\* the directory <opfpath>/layers: `top` the names directly in it, as
\* <<stem, suffix>>, and `files` the annotations of layers/<vol_id>/<layer_id>.yml
LayerFiles ==
    [key \in VolIds \X LayerIds |->
        CASE key = <<"v001", "A">> -> <<Ann(0, 1), Ann(1, 2)>>
          [] key = <<"v001", "B">> -> <<Ann(0, 2)>>
          [] key = <<"v002", "A">> -> <<Ann(1, 2)>>
          [] key = <<"v002", "B">> -> <<>>]

VolDirs == {<<"v001", "">>, <<"v002", "">>}

LayerDirs == {
    [top |-> VolDirs, files |-> LayerFiles],
    [top |-> VolDirs \cup {<<"A", ".yml">>, <<"B", ".yml">>}, files |-> LayerFiles],
    [top |-> VolDirs, files |-> [key \in {<<"v001", "A">>} |-> LayerFiles[key]]] }

\* self.layers as given to the constructor
LayerLists == {None, List(<<>>), List(<<"A">>), List(<<"A", "B">>), List(<<"B", "A">>)}

\* Python truth value of self.layers
Truthy(x) == x.type # "NoneType" /\ x.val # <<>>

\* a['type'] = layer_id
Tag(a, layer_id) == [type |-> layer_id, start |-> a.start, end |-> a.end]

\* Serialize.apply_annotation
apply_annotation(st, vol_id, a) ==
    [st EXCEPT !.hookCalls = Append(@, <<vol_id, a>>),
               !.raised = "NotImplementedError"]

\* apply_annotation of a concrete subclass: records the layer's string
\* before the first character of the annotation, through add_chars
SubclassHook(st, vol_id, a) ==
    [st EXCEPT !.hookCalls = Append(@, <<vol_id, a>>),
               !.toapply = add_chars(@, vol_id, a.start, TRUE, a.type),
               !.added = Log(@, vol_id, a.start, TRUE, a.type)]

CallHook(c, st, vol_id, a) ==
    IF c = "Serialize" THEN apply_annotation(st, vol_id, a)
    ELSE SubclassHook(st, vol_id, a)

RECURSIVE ApplyAnns(_, _, _, _, _, _)
ApplyAnns(c, st, vol_id, layer_id, anns, k) ==
    IF k > Len(anns) \/ st.raised # "none" THEN st
    ELSE ApplyAnns(c, CallHook(c, st, vol_id, Tag(anns[k], layer_id)),
                   vol_id, layer_id, anns, k + 1)

\* apply_layer walking the annotations from the last to the first
apply_layer_reversed(c, dir, st, vol_id, layer_id) ==
    IF <<vol_id, layer_id>> \notin DOMAIN dir.files
    THEN [st EXCEPT !.raised = "FileNotFoundError"]
    ELSE ApplyAnns(c, st, vol_id, layer_id, Reverse(dir.files[<<vol_id, layer_id>>]), 1)

apply_layer(c, dir, st, vol_id, layer_id) ==
    IF <<vol_id, layer_id>> \notin DOMAIN dir.files
    THEN [st EXCEPT !.raised = "FileNotFoundError"]
    ELSE ApplyAnns(c, st, vol_id, layer_id, dir.files[<<vol_id, layer_id>>], 1)

\* the stems of the .yml entries of <opfpath>/layers, in the order iterdir
\* yields them: `order` is any enumeration of the directory
get_all_layer(dir, order) ==
    LET yml == SelectSeq(order, LAMBDA e : e[2] = ".yml")
    IN  [k \in 1..Len(yml) |-> yml[k][1]]

Enumerations(S) ==
    {f \in [1..Cardinality(S) -> S] : \A x \in S : \E k \in DOMAIN f : f[k] = x}

\* the loops of apply_layers over the volumes and the listed layers
RECURSIVE ApplyListed(_, _, _, _, _, _, _)
ApplyListed(c, dir, st, bases, lyrs, v, l) ==
    IF v > Len(bases) \/ st.raised # "none" THEN st
    ELSE IF l > Len(lyrs) THEN ApplyListed(c, dir, st, bases, lyrs, v + 1, 1)
    ELSE ApplyListed(c, dir, apply_layer(c, dir, st, bases[v][1], lyrs[l]),
                     bases, lyrs, v, l + 1)

\* apply_layers; in the else branch apply_layer is called with one argument
apply_layers(c, dir, st, bases, lyrs, order) ==
    IF Truthy(lyrs)
    THEN ApplyListed(c, dir, st, bases, lyrs.val, 1, 1)
    ELSE IF Len(bases) > 0 /\ Len(get_all_layer(dir, order)) > 0
         THEN [st EXCEPT !.raised = "TypeError"]
         ELSE st

Self == [toapply |-> chars_toapply, hookCalls |-> hookCalls, added |-> added,
         raised |-> "none"]

\* --------------------------------------------------------------- Blupdate
\* the outcome of a call: a returned value or a raised exception
Return(v) == [ret |-> v, raised |-> "none"]
Raise(e) == [ret |-> None, raised |-> e]

contextlen == 16

\* the offsets an estimate is tried with
Offsets == (0 - MaxOffset)..MaxOffset

\* the (srcbl, dstbl) pairs given to the constructor
BlTexts == {
    [srcbl |-> <<"a", "b", "e", "f", "g", "h", "i", "j", "k", "l">>,
     dstbl |-> <<"a", "b", "c", "d", "e", "f", "g", "k", "l">>],
    [srcbl |-> <<"a", "b", "c">>, dstbl |-> <<"a", "b", "c">>],
    [srcbl |-> <<"a", "b", "c">>, dstbl |-> <<"a", "c">>],
    [srcbl |-> <<"a", "b">>, dstbl |-> <<"x", "a", "b">>] }

\* Blupdate.__init__: self.cctv is bound to the function compute_cctv itself
Blupdate(srcbl, dstbl) ==
    [srcbl |-> srcbl, dstbl |-> dstbl,
     cctv |-> Function("compute_cctv"),
     contextlen |-> contextlen]

\* the bodies of these methods are `pass`
compute_cctv(self) == Return(None)
get_cctv_for_coord(self, srcblcoord) == Return(None)
get_context(self, srcblcoord) == Return(None)
dmp_find(self, context, dstcoordestimate) == Return(None)

get_updated_with_dmp(self, srcblcoord, cct) ==
    LET context == get_context(self, srcblcoord)
        dstcoordestimate == srcblcoord + cct
    IN  dmp_find(self, context.ret, dstcoordestimate)

\* cctvforcoord[1] of None raises TypeError; the class has no attribute
\* getupdatedwithdmp
get_updated_coord(self, srcblcoord) ==
    LET cctvforcoord == get_cctv_for_coord(self, srcblcoord) IN
    IF cctvforcoord.ret.type = "NoneType" THEN Raise("TypeError")
    ELSE IF cctvforcoord.ret.val[2]
         THEN Return(Int_(srcblcoord + cctvforcoord.ret.val[1]))
    ELSE Raise("AttributeError")

\* ------------------------------------------------------------------ states
NoBl == [state |-> "unused"]

Fresh ==
    /\ base_layers = get_text_base_layer(volTxt, text_spans)
    /\ chars_toapply = <<>>
    /\ hookCalls = <<>>
    /\ added = NoAdded
    /\ last = <<"__init__">>
    /\ ret = None
    /\ raised = "none"

\* instances of a rendering subclass, driven through add_chars and get_result
Init ==
    /\ volTxt \in [VolPaths -> RawTexts]
    /\ volTxt[<<"base", "v002">>] = <<"a", "b">>
    /\ text_spans \in Works
    /\ layerDir \in {[top |-> VolDirs, files |-> LayerFiles]}
    /\ cls = "SerializeMd"
    /\ layers = None
    /\ Fresh
    /\ bl = NoBl

\* instances of Serialize and of a subclass, driven through the layer files
InitLayers ==
    /\ volTxt \in [VolPaths -> {<<"a", "b">>}]
    /\ text_spans \in Works
    /\ layerDir \in LayerDirs
    /\ cls \in {"Serialize", "SerializeMd"}
    /\ layers \in LayerLists
    /\ Fresh
    /\ bl = NoBl

\* Blupdate instances; no Serialize instance is in use
InitBl ==
    /\ volTxt = [p \in VolPaths |-> <<"a", "b">>]
    /\ text_spans = << SpanOf(<<"base", "v001">>, 0, 3) >>
    /\ layerDir = [top |-> VolDirs, files |-> LayerFiles]
    /\ cls = "Serialize"
    /\ layers = None
    /\ Fresh
    /\ \E t \in BlTexts :
          bl = [self |-> Blupdate(t.srcbl, t.dstbl), last |-> <<"__init__">>,
                ret |-> None, raised |-> "none"]

Files == <<volTxt, layerDir, cls, text_spans, layers, bl>>

AddChars(vol_id, cc, frombefore, charstoadd) ==
    /\ chars_toapply' = add_chars(chars_toapply, vol_id, cc, frombefore, charstoadd)
    /\ added' = Log(added, vol_id, cc, frombefore, charstoadd)
    /\ last' = <<"add_chars">>
    /\ ret' = None
    /\ raised' = "none"
    /\ UNCHANGED <<Files, base_layers, hookCalls>>

GetResult ==
    /\ LET r == get_result(base_layers, chars_toapply)
       IN  /\ ret' = r.ret
           /\ chars_toapply' = r.toapply
    /\ last' = <<"get_result">>
    /\ raised' = "none"
    /\ UNCHANGED <<Files, base_layers, hookCalls, added>>

Took(st) ==
    /\ chars_toapply' = st.toapply
    /\ hookCalls' = st.hookCalls
    /\ added' = st.added
    /\ raised' = st.raised
    /\ ret' = None
    /\ UNCHANGED <<Files, base_layers>>

ApplyLayer(vol_id, layer_id) ==
    /\ Len(hookCalls) < MaxCalls
    /\ Took(apply_layer(cls, layerDir, Self, vol_id, layer_id))
    /\ last' = <<"apply_layer", vol_id, layer_id>>

ApplyLayers(order) ==
    /\ Len(hookCalls) < MaxCalls
    /\ Took(apply_layers(cls, layerDir, Self, base_layers, layers, order))
    /\ last' = <<"apply_layers">>

\* at most MaxCalls insertions are recorded
Next ==
    \/ /\ NumAdded < MaxCalls
       /\ \E v \in VolIds, cc \in Coords, fb \in BOOLEAN, s \in Strs :
             AddChars(v, cc, fb, s)
    \/ GetResult

NextLayers ==
    \/ \E v \in VolIds, l \in LayerIds : ApplyLayer(v, l)
    \/ \E order \in Enumerations(layerDir.top) : ApplyLayers(order)
    \/ GetResult

Called(call, out) ==
    /\ bl' = [bl EXCEPT !.last = call, !.ret = out.ret, !.raised = out.raised]
    /\ UNCHANGED <<volTxt, layerDir, cls, text_spans, base_layers, chars_toapply,
                   layers, hookCalls, added, last, ret, raised>>

SrcCoords == 0..Len(bl.self.srcbl)

ComputeCctv == Called(<<"compute_cctv">>, compute_cctv(bl.self))

GetCctvForCoord(c) ==
    Called(<<"get_cctv_for_coord", c>>, get_cctv_for_coord(bl.self, c))

GetContext(c) == Called(<<"get_context", c>>, get_context(bl.self, c))

DmpFind(c, est) ==
    Called(<<"dmp_find", c, est>>, dmp_find(bl.self, get_context(bl.self, c).ret, est))

GetUpdatedWithDmp(c, cct) ==
    Called(<<"get_updated_with_dmp", c, cct>>, get_updated_with_dmp(bl.self, c, cct))

GetUpdatedCoord(c) ==
    Called(<<"get_updated_coord", c>>, get_updated_coord(bl.self, c))

NextBl ==
    \/ ComputeCctv
    \/ \E c \in SrcCoords : GetCctvForCoord(c)
    \/ \E c \in SrcCoords : GetContext(c)
    \/ \E c \in SrcCoords, est \in 0..Len(bl.self.dstbl) : DmpFind(c, est)
    \/ \E c \in SrcCoords, cct \in Offsets : GetUpdatedWithDmp(c, cct)
    \/ \E c \in SrcCoords : GetUpdatedCoord(c)

Spec == Init /\ [][Next]_vars

SpecBl == InitBl /\ [][NextBl]_vars

SpecLayers == InitLayers /\ [][NextLayers]_vars


\* ================================================================ claims
\* ---- definitions the claims are stated with

\* the entry of the insertion map at (vol_id, cc); <<>> when there is none
HasEntry(vol_id, cc) ==
    vol_id \in DOMAIN chars_toapply /\ cc \in DOMAIN chars_toapply[vol_id]
Entry(vol_id, cc) == IF HasEntry(vol_id, cc) THEN chars_toapply[vol_id][cc] ELSE <<>>
EntryNext(vol_id, cc) ==
    IF vol_id \in DOMAIN chars_toapply' /\ cc \in DOMAIN chars_toapply'[vol_id]
    THEN chars_toapply'[vol_id][cc] ELSE <<>>

Keys == VolIds \X Coords
NumCalls(key) == Len(added[key].before) + Len(added[key].after)

\* the text of the k-th span with the single leading byte-order marker of the
\* volume's raw text removed
SpanVol(k) == SplitLast(text_spans[k].vol)
SpanText(k) == get_base_layer(volTxt, text_spans[k])
HasLeadingBOM(k) ==
    /\ text_spans[k].span.start = 0
    /\ Len(SpanText(k)) > 0
    /\ SpanText(k)[1] = BOM
Stripped(k) == IF HasLeadingBOM(k) THEN Tail(SpanText(k)) ELSE SpanText(k)

Contains(seq, sub) ==
    \E k \in 0..(Len(seq) - Len(sub)) : SubSeq(seq, k + 1, k + Len(sub)) = sub

\* the rendering of every volume of the work, one after the other
RECURSIVE RenderedFrom(_)
RenderedFrom(k) ==
    IF k > Len(base_layers) THEN <<>>
    ELSE RenderVol(base_layers[k][1], base_layers[k][2], 1, 0,
                   [res |-> <<>>, toapply |-> chars_toapply]).res
         \o RenderedFrom(k + 1)

\* C1: for a work of two or more volumes get_result returns the renderings of
\* all its volumes, concatenated in span order.
C1_AllVolumesRendered ==
    (last[1] = "get_result" /\ Len(base_layers) >= 2) => ret = Str(RenderedFrom(1))

\* C2: with no insertion recorded, get_result of a one-volume work returns the
\* base text with only a byte-order marker that starts the raw text removed;
\* a marker at a later position is emitted.
C2_IdentityLaw ==
    (last[1] = "get_result" /\ NumAdded = 0 /\ Len(text_spans) = 1)
        => ret = Str(Stripped(1))

\* C3: at every coordinate inside the text of every volume of the work, the
\* before-list is the reverse of the call order and the after-list is the call
\* order, and the output of get_result has the before strings immediately
\* ahead of the character at that coordinate and the after strings immediately
\* behind it.
C3_InsertionOrdering ==
    \A k \in 1..Len(text_spans) : \A cc \in 0..(Len(Stripped(k)) - 1) :
        LET key == <<SpanVol(k), cc>> IN
        NumCalls(key) > 0 =>
            /\ Entry(key[1], cc) = <<Reverse(added[key].before), added[key].after>>
            /\ last[1] = "get_result" =>
                  Contains(ret.val, Reverse(added[key].before) \o <<Stripped(k)[cc + 1]>>
                                \o added[key].after)

\* C7: once an insertion is recorded at a coordinate outside the text of a
\* volume of the work, get_result reports an error.
C7_OutOfRangeReported ==
    (/\ last[1] = "get_result"
     /\ \E k \in 1..Len(text_spans) : \E cc \in Coords :
            /\ NumCalls(<<SpanVol(k), cc>>) > 0
            /\ (cc < 0 \/ cc >= Len(Stripped(k))))
        => raised # "none"

\* the entries of the insertion map against the history of add_chars calls
C10_EntriesAreCalls ==
    /\ \A key \in Keys :
          /\ HasEntry(key[1], key[2]) <=> NumCalls(key) > 0
          /\ HasEntry(key[1], key[2]) =>
                Len(Entry(key[1], key[2])[1]) + Len(Entry(key[1], key[2])[2])
                    = NumCalls(key)
    /\ \A v \in DOMAIN chars_toapply : DOMAIN chars_toapply[v] \subseteq Coords
    /\ DOMAIN chars_toapply \subseteq VolIds
    /\ base_layers = get_text_base_layer(volTxt, text_spans)

\* what one call may change
C10_Frame ==
    /\ base_layers' = base_layers
    /\ volTxt' = volTxt
    /\ last'[1] = "get_result" =>
          \A key \in Keys : EntryNext(key[1], key[2]) = Entry(key[1], key[2])
    /\ last'[1] = "add_chars" =>
          \E key \in Keys :
              LET old == IF HasEntry(key[1], key[2]) THEN Entry(key[1], key[2])
                         ELSE EmptyApply
                  new == EntryNext(key[1], key[2])
              IN  /\ new # <<>>
                  /\ \/ /\ Len(new[1]) = Len(old[1]) + 1
                        /\ Tail(new[1]) = old[1]
                        /\ new[2] = old[2]
                     \/ /\ Len(new[2]) = Len(old[2]) + 1
                        /\ SubSeq(new[2], 1, Len(old[2])) = old[2]
                        /\ new[1] = old[1]
                  /\ \A other \in Keys \ {key} :
                        EntryNext(other[1], other[2]) = Entry(other[1], other[2])

\* C10: the insertion map has an entry exactly at the (volume, coordinate)
\* pairs add_chars was called for, holding as many strings as there were
\* calls; an add_chars call extends one list of one entry by one string and
\* leaves every other entry alone; get_result changes no entry; the base text
\* never changes.
C10_InsertionMapIsCalls == []C10_EntriesAreCalls /\ [][C10_Frame]_vars

C10_Witness ==
    /\ last[1] = "get_result"
    /\ \E key \in Keys :
          /\ Len(added[key].before) >= 1
          /\ Len(added[key].after) >= 1
          /\ HasEntry(key[1], key[2])


\* ---- the layer files

\* the hook calls apply_layer is to make for one layer of one volume
HookCallsOf(vol_id, layer_id) ==
    LET anns == layerDir.files[<<vol_id, layer_id>>]
    IN  [k \in 1..Len(anns) |->
            <<vol_id, [type |-> layer_id, start |-> anns[k].start, end |-> anns[k].end]>>]

\* the layers found for a volume, in lexicographic order
RECURSIVE Sorted(_)
Sorted(S) ==
    IF S = {} THEN <<>>
    ELSE LET m == CHOOSE x \in S : \A y \in S : (x = "A" \/ y = "B")
         IN  <<m>> \o Sorted(S \ {m})
FoundFor(vol_id) ==
    Sorted({l \in LayerIds : <<vol_id, l>> \in DOMAIN layerDir.files})

RECURSIVE CallsOfLayers(_, _, _)
CallsOfLayers(vol_id, lyrs, l) ==
    IF l > Len(lyrs) THEN <<>>
    ELSE HookCallsOf(vol_id, lyrs[l]) \o CallsOfLayers(vol_id, lyrs, l + 1)

\* the hook calls apply_layers is to make: for every volume of the work, the
\* listed layers, or all the layers found for the volume when none is listed
RECURSIVE CallsOfVolumes(_)
CallsOfVolumes(v) ==
    IF v > Len(base_layers) THEN <<>>
    ELSE LET vol_id == base_layers[v][1]
             lyrs == IF layers = None THEN FoundFor(vol_id) ELSE layers.val
         IN  CallsOfLayers(vol_id, lyrs, 1) \o CallsOfVolumes(v + 1)

AllListedExist ==
    layers # None =>
        \A v \in 1..Len(base_layers) : \A l \in 1..Len(layers.val) :
            <<base_layers[v][1], layers.val[l]>> \in DOMAIN layerDir.files

\* one apply_layers call, the listed layer files being there
C8_Step ==
    (last'[1] = "apply_layers" /\ cls = "SerializeMd" /\ AllListedExist)
        => /\ raised' = "none"
           /\ hookCalls' = hookCalls \o CallsOfVolumes(1)

\* C8: apply_layers of a rendering subclass completes without error, having
\* called the hook for exactly the annotations of the listed layers, for every
\* volume in order; with no list given, of every layer found for the volume in
\* lexicographic order; with an empty list, of none.
C8_ApplyLayersAppliesAll == [][C8_Step]_vars

\* one apply_layer call on a layer file that is there
C9_Step ==
    \A v \in VolIds, l \in LayerIds :
        (last' = <<"apply_layer", v, l>> /\ <<v, l>> \in DOMAIN layerDir.files)
            => LET calls == HookCallsOf(v, l) IN
               IF cls = "Serialize"
               THEN /\ hookCalls' = hookCalls \o SubSeq(calls, 1, Min(1, Len(calls)))
                    /\ raised' = IF Len(calls) = 0 THEN "none" ELSE "NotImplementedError"
                    /\ chars_toapply' = chars_toapply
               ELSE /\ hookCalls' = hookCalls \o calls
                    /\ raised' = "none"

\* C9: apply_layer calls the hook once per annotation of the layer file, in
\* file order, each annotation tagged with the layer id; under the base class
\* the first annotation raises NotImplementedError and the insertion map is
\* left as it was.
C9_HookOncePerAnnotation == [][C9_Step]_vars

C9_Witness ==
    /\ last = <<"apply_layer", "v001", "A">>
    /\ cls = "SerializeMd"
    /\ hookCalls = << <<"v001", [type |-> "A", start |-> 0, end |-> 1]>>,
                      <<"v001", [type |-> "A", start |-> 1, end |-> 2]>> >>
    /\ raised = "none"

\* ---- Blupdate

\* the operations of the diff of each (srcbl, dstbl) pair
DiffOps(srcbl, dstbl) ==
    CASE Len(srcbl) = 10 ->
            << <<"equal", 2>>, <<"insert", 2>>, <<"equal", 3>>, <<"delete", 3>>,
               <<"equal", 2>> >>
      [] Len(srcbl) = 3 /\ Len(dstbl) = 3 -> << <<"equal", 3>> >>
      [] Len(srcbl) = 3 /\ Len(dstbl) = 2 ->
            << <<"equal", 1>>, <<"delete", 1>>, <<"equal", 1>> >>
      [] Len(srcbl) = 2 -> << <<"insert", 1>>, <<"equal", 2>> >>

\* the translation vector built from a diff with a running cursor and offset
RECURSIVE BuildVector(_, _, _, _)
BuildVector(ops, k, srcCursor, offset) ==
    IF k > Len(ops) THEN <<>>
    ELSE LET n == ops[k][2] IN
         CASE ops[k][1] = "equal" ->
                << <<srcCursor, srcCursor + n, offset>> >>
                \o BuildVector(ops, k + 1, srcCursor + n, offset)
           [] ops[k][1] = "insert" -> BuildVector(ops, k + 1, srcCursor, offset + n)
           [] ops[k][1] = "delete" -> BuildVector(ops, k + 1, srcCursor + n, offset - n)

Vector == BuildVector(DiffOps(bl.self.srcbl, bl.self.dstbl), 1, 0, 0)

\* the offset and certainty of a coordinate under a translation vector
Lookup(vec, c) ==
    LET inside == {k \in 1..Len(vec) : vec[k][1] <= c /\ c < vec[k][2]}
        before == {k \in 1..Len(vec) : vec[k][2] <= c}
        after == {k \in 1..Len(vec) : vec[k][1] > c}
        lastBefore == CHOOSE k \in before : \A j \in before : j <= k
        firstAfter == CHOOSE k \in after : \A j \in after : k <= j
    IN  IF inside # {} THEN <<vec[CHOOSE k \in inside : TRUE][3], TRUE>>
        ELSE IF before # {} /\ after # {}
             THEN <<(vec[lastBefore][3] + vec[firstAfter][3] + 1) \div 2, FALSE>>
        ELSE IF before # {} THEN <<vec[lastBefore][3], FALSE>>
        ELSE IF after # {} THEN <<vec[firstAfter][3], FALSE>>
        ELSE <<0, FALSE>>

\* C4: get_updated_coord never raises and returns an integer, coordinate +
\* offset where the lookup is certain.
C4_TranslateReturnsCoordinate ==
    \A c \in SrcCoords :
        bl.last = <<"get_updated_coord", c>>
            => /\ bl.raised = "none"
               /\ bl.ret.type = "int"
               /\ Lookup(Vector, c)[2] => bl.ret.val = c + Lookup(Vector, c)[1]

\* C5: the cctv of a constructed Blupdate is the translation vector built from
\* the diff of its two texts: triples sorted by start, not overlapping, within
\* the source text.
C5_CctvIsVector ==
    /\ bl.self.cctv = List(Vector)
    /\ \A k \in 1..Len(Vector) :
          /\ 0 <= Vector[k][1] /\ Vector[k][1] <= Vector[k][2]
          /\ Vector[k][2] <= Len(bl.self.srcbl)
          /\ k > 1 => Vector[k - 1][2] <= Vector[k][1]

\* C6: get_cctv_for_coord returns the offset of the triple holding the
\* coordinate and true, or else the rounded average of the neighbouring
\* offsets and false.
C6_LookupReturnsOffset ==
    \A c \in SrcCoords :
        bl.last = <<"get_cctv_for_coord", c>> => bl.ret = Tuple(Lookup(Vector, c))

\* the worked example of the documentation, as the claims' definitions give it
WorkedExample ==
    LET vec == BuildVector(DiffOps([k \in 1..10 |-> "x"], <<>>), 1, 0, 0)
    IN  /\ vec = << <<0, 2, 0>>, <<2, 5, 2>>, <<8, 10, 0 - 1>> >>
        /\ Lookup(vec, 3) = <<2, TRUE>>
        /\ Lookup(vec, 7) = <<1, FALSE>>

====
